---- MODULE Spec2Model ----
(***************************************************************************)
(* Winning-Score Engine and product record of the Dropship Intelligence    *)
(* platform.  The backend score engine (backend/scoring/engine.py) is      *)
(* modelled from its documented contract; the product card's margin        *)
(* display (getProfitMargin), the product query pipeline (filter, sort and *)
(* stats of the useProducts hook and of the products page), the product    *)
(* fetch, the saved products, the filter panel, the notifications and      *)
(* useLocalStorage are modelled from the frontend source.                  *)
(*                                                                         *)
(* Numbers are fixed point: a sub-score in [0,1] is an integer number of   *)
(* thousandths (0..Unit), a weight is an integer number of hundredths, a   *)
(* score in [0,100] is an integer number of tenths (0..1000), and a        *)
(* displayed margin percentage is an integer number of tenths of a         *)
(* percent.                                                                *)
(***************************************************************************)
EXTENDS Integers, Sequences, FiniteSets, TLC

VARIABLES config, now, product, tasks, hist, card, query, analytics, fetch,
          saved, storage, panel, notes

vars ==
    <<config, now, product, tasks, hist, card, query, analytics, fetch,
      saved, storage, panel, notes>>

(***************************************************************************)
(* Bounds of the model.                                                    *)
(***************************************************************************)
MaxCount == 4      \* largest ad / mention count a crawler supplies
MaxStores == 2     \* largest stores-selling-this-product count supplied
MaxClock == 1      \* last clock instant
MaxWrites == 2     \* signal writes to the stored product
MaxCardWrites == 1 \* signal writes to a product in the scoring pipeline

(***************************************************************************)
(* Raw signal values.  A signal supplied by a crawler is loosely typed:    *)
(* it may be absent, not a number, non-finite, or any integer.             *)
(***************************************************************************)
Num(n) == [k |-> "num", v |-> n]
Absent == [k |-> "absent", v |-> 0]
NaN == [k |-> "nan", v |-> 0]
Inf == [k |-> "inf", v |-> 0]

IsNum(x) == x.k = "num"

\* a value the normalizers accept: numeric, finite and not negative
WellFormed(x) == IsNum(x) /\ x.v >= 0

Unit == 1000

Min2(a, b) == IF a <= b THEN a ELSE b
Max2(a, b) == IF a >= b THEN a ELSE b
Clamp(lo, hi, x) == Max2(lo, Min2(hi, x))

SetMin(S) == CHOOSE m \in S : \A y \in S : m <= y

(***************************************************************************)
(* Signal Normalizer (spec 4.1).                                           *)
(***************************************************************************)
CAP == 3

\* ln(1+x) in thousandths for x = 1..CAP
Log1pMilli == <<693, 1099, 1386>>

\* ads and mentions: min(1, log1p(x)/log1p(CAP)); malformed or empty -> 0
NormCount(x) ==
    IF ~WellFormed(x) \/ x.v = 0 THEN 0
    ELSE IF x.v >= CAP THEN Unit
    ELSE Min2(Unit, (Log1pMilli[x.v] * Unit) \div Log1pMilli[CAP])

\* the values of the supplier_prices mapping
SupplierValues(sp) == {sp.m[s] : s \in DOMAIN sp.m}

\* min(supplier_prices.values())
MinSupplier(sp) == SetMin({x.v : x \in SupplierValues(sp)})

\* margin: max(0, (price - min supplier price) / price), clamped to [0,1],
\* when supplier_prices is non-empty and price > 0; otherwise 0
NormMargin(price, sp) ==
    IF ~sp.present \/ DOMAIN sp.m = {} THEN 0
    ELSE IF \E x \in SupplierValues(sp) : ~IsNum(x) THEN 0
    ELSE IF ~IsNum(price) \/ price.v <= 0 THEN 0
    ELSE Clamp(0, Unit, ((price.v - MinSupplier(sp)) * Unit) \div price.v)

\* the trend score divided without a domain check
NormTrend_nodomain(x) == IF IsNum(x) THEN (x.v * Unit) \div 100 ELSE 0

\* trend: trend_score / 100 when present and numeric (in 0..100); otherwise 0
NormTrend(x) ==
    IF WellFormed(x) /\ x.v <= 100 THEN (x.v * Unit) \div 100 ELSE 0

SaturationDefault == 500

\* saturation: inverse function of the stores-selling count; unknown -> 0.5
NormSaturation(x) ==
    IF WellFormed(x) THEN Unit \div (1 + x.v) ELSE SaturationDefault

Normalize(sig) ==
    [ads |-> NormCount(sig.facebook_ads),
     mentions |-> NormCount(sig.tiktok_mentions),
     margin |-> NormMargin(sig.price, sig.supplier_prices),
     trend |-> NormTrend(sig.trend_score),
     saturation |-> NormSaturation(sig.store_count)]

(***************************************************************************)
(* Score Composer (spec 4.2, README "Winning Score Formula").              *)
(***************************************************************************)
W_ADS == 30
W_MENTIONS == 25
W_MARGIN == 20
W_TREND == 10
W_SATURATION == 15

\* the trend and saturation weights exchanged
DefaultWeights_swapped ==
    [ads |-> W_ADS, mentions |-> W_MENTIONS, margin |-> W_MARGIN,
     trend |-> W_SATURATION, saturation |-> W_TREND]

\* the ad weight edited without rebalancing the others
DefaultWeights_edited ==
    [ads |-> W_ADS + 5, mentions |-> W_MENTIONS, margin |-> W_MARGIN,
     trend |-> W_TREND, saturation |-> W_SATURATION]

DefaultWeights ==
    [ads |-> W_ADS, mentions |-> W_MENTIONS, margin |-> W_MARGIN,
     trend |-> W_TREND, saturation |-> W_SATURATION]

SumWeights(w) == w.ads + w.mentions + w.margin + w.trend + w.saturation

\* the invariant enforced at configuration-load time
ValidWeights(w) == SumWeights(w) = 100

\* the trend term subtracted instead of added
Weighted_minus(w, s) ==
    w.ads * s.ads + w.mentions * s.mentions + w.margin * s.margin
    - w.trend * s.trend + w.saturation * (Unit - s.saturation)

\* sum of weight (hundredths) x sub-score (thousandths)
Weighted(w, s) ==
    w.ads * s.ads + w.mentions * s.mentions + w.margin * s.margin
    + w.trend * s.trend + w.saturation * (Unit - s.saturation)

\* rounding to one decimal place: tenths of a score point, half up
RoundTenths(x) == (x + 50) \div 100

\* the saturation penalty subtracted from the sum, and no clamp
ComposeScore_penalty(w, s) ==
    RoundTenths(w.ads * s.ads + w.mentions * s.mentions + w.margin * s.margin
                + w.trend * s.trend - w.saturation * s.saturation)

\* score = 100 x (weighted sum), clamped to [0,100], one decimal place
ComposeScore(w, s) == Clamp(0, 1000, RoundTenths(Weighted(w, s)))

Score(w, sig) == ComposeScore(w, Normalize(sig))

(***************************************************************************)
(* Product card margin display (frontend getProfitMargin).  JavaScript     *)
(* numbers are modelled as a finite value, +Infinity, -Infinity or NaN.    *)
(***************************************************************************)
Abs(x) == IF x < 0 THEN -x ELSE x

JsNull == [k |-> "null", v |-> 0]
JsNum(n) == [k |-> "num", v |-> n]
JsInf == [k |-> "inf", v |-> 0]
JsNegInf == [k |-> "ninf", v |-> 0]
JsNaN == [k |-> "nan", v |-> 0]

\* a raw field as the JavaScript number the arithmetic operators see
ToJs(x) ==
    IF x.k = "num" THEN JsNum(x.v)
    ELSE IF x.k = "inf" THEN JsInf
    ELSE JsNaN

\* the dearest supplier taken instead of the cheapest
MathMin_max(vals) ==
    IF vals = {} THEN JsInf
    ELSE IF \E x \in vals : ToJs(x).k = "nan" THEN JsNaN
    ELSE IF \A x \in vals : x.k = "inf" THEN JsInf
    ELSE LET nums == {x.v : x \in {y \in vals : y.k = "num"}}
         IN  JsNum(CHOOSE m \in nums : \A y \in nums : m >= y)

\* Math.min(...values): Infinity for no arguments, NaN if any argument is
MathMin(vals) ==
    IF vals = {} THEN JsInf
    ELSE IF \E x \in vals : ToJs(x).k = "nan" THEN JsNaN
    ELSE IF \A x \in vals : x.k = "inf" THEN JsInf
    ELSE JsNum(SetMin({x.v : x \in {y \in vals : y.k = "num"}}))

\* a - b
JsSub(a, b) ==
    IF a.k = "nan" \/ b.k = "nan" THEN JsNaN
    ELSE IF a.k = "inf" THEN (IF b.k = "inf" THEN JsNaN ELSE JsInf)
    ELSE IF b.k = "inf" THEN JsNegInf
    ELSE JsNum(a.v - b.v)

\* (a / b) * 100 rounded as toFixed(1) rounds, in tenths; a is a difference
\* (finite, -Infinity, +Infinity or NaN), b is the price
JsPercentFixed1(a, b) ==
    IF a.k = "nan" \/ b.k = "nan" THEN JsNaN
    ELSE IF b.k = "inf" THEN (IF a.k = "num" THEN JsNum(0) ELSE JsNaN)
    ELSE IF a.k = "inf" THEN (IF b.v < 0 THEN JsNegInf ELSE JsInf)
    ELSE IF a.k = "ninf" THEN (IF b.v < 0 THEN JsInf ELSE JsNegInf)
    ELSE IF b.v = 0 THEN
        (IF a.v > 0 THEN JsInf ELSE IF a.v < 0 THEN JsNegInf ELSE JsNaN)
    ELSE LET mag == (2 * Abs(a.v) * 1000 + Abs(b.v)) \div (2 * Abs(b.v))
         IN  JsNum(IF (a.v < 0) = (b.v < 0) THEN mag ELSE -mag)

\* getProfitMargin(): null without supplier_prices, otherwise the margin
\* against the cheapest supplier as a percentage with one decimal
getProfitMargin(price, sp) ==
    IF ~sp.present THEN JsNull
    ELSE LET supplierPrice == MathMin(SupplierValues(sp))
         IN  JsPercentFixed1(JsSub(ToJs(price), supplierPrice), ToJs(price))

(***************************************************************************)
(* Inputs: what an ingestion collaborator can supply for each signal.      *)
(***************************************************************************)
Fields ==
    {"facebook_ads", "tiktok_mentions", "price", "supplier_prices",
     "trend_score", "store_count"}

SupplierNames == {"a", "b"}

NoMap == [s \in {} |-> NaN]
NoSuppliers == [present |-> FALSE, m |-> NoMap]
Suppliers(f) == [present |-> TRUE, m |-> f]

RawCounts == {Absent, NaN, Inf} \cup {Num(n) : n \in -1 .. MaxCount}
RawPrices == {Absent, NaN} \cup {Num(n) : n \in {-1, 0, 20, 50}}
RawCosts == {NaN} \cup {Num(n) : n \in {-10, 20, 30}}
RawTrends == {Absent, NaN, Inf} \cup {Num(n) : n \in {-1, 0, 50, 100, 150}}
RawStores == {Absent, NaN} \cup {Num(n) : n \in -1 .. MaxStores}

SupplierMaps ==
    {NoSuppliers} \cup
    {Suppliers(f) : f \in UNION {[S -> RawCosts] : S \in SUBSET SupplierNames}}

Inputs(field) ==
    CASE field = "facebook_ads" -> RawCounts
      [] field = "tiktok_mentions" -> RawCounts
      [] field = "price" -> RawPrices
      [] field = "supplier_prices" -> SupplierMaps
      [] field = "trend_score" -> RawTrends
      [] field = "store_count" -> RawStores

Missing(field) == IF field = "supplier_prices" THEN NoSuppliers ELSE Absent

\* a product none of whose signals has been supplied
AllMissing == [f \in Fields |-> Missing(f)]

\* price 50, supplier_prices {a: 20, b: 30}, nothing else supplied
ScenarioSig ==
    [AllMissing EXCEPT
        !["price"] = Num(50),
        !["supplier_prices"] =
            Suppliers([s \in SupplierNames |->
                          IF s = "a" THEN Num(20) ELSE Num(30)])]

\* signal sets an ingestion collaborator creates a product with
InitialSignals == {AllMissing, ScenarioSig}

(***************************************************************************)
(* Sequential scoring pipeline of one product, and its product card:       *)
(* raw signal -> Signal Normalizer -> Score Composer -> score.             *)
(***************************************************************************)
Categories == {"ads", "mentions", "margin", "trend", "saturation"}

BumpLevels == {500, 1000}

NoBump == [cat |-> "none", subs |-> Normalize(AllMissing), score |-> 0]

CardInit ==
    card = [op |-> "none", sig |-> AllMissing, subs |-> Normalize(AllMissing),
            score |-> 0, writes |-> 0, margin |-> JsNull, bump |-> NoBump]

\* the pipeline run on a product's current signals
Pipeline(c, sig, op) ==
    [c EXCEPT !.op = op, !.sig = sig, !.subs = Normalize(sig),
              !.score = ComposeScore(DefaultWeights, Normalize(sig)),
              !.margin = JsNull, !.bump = NoBump]

\* ingestion creates the product with zero or more signals populated
CardCreate(sig) ==
    /\ card.op = "none"
    /\ card' = Pipeline(card, sig, "create")
    /\ UNCHANGED <<config, now, product, tasks, hist, query, analytics, fetch,
                   saved, storage, panel, notes>>

\* a collaborator supplies one signal; the score is recomputed
CardWrite(field, value) ==
    /\ card.op # "none"
    /\ card.writes < MaxCardWrites
    /\ card' = [Pipeline(card, [card.sig EXCEPT ![field] = value], "write")
                EXCEPT !.writes = card.writes + 1]
    /\ UNCHANGED <<config, now, product, tasks, hist, query, analytics, fetch,
                   saved, storage, panel, notes>>

\* the product card is rendered: the margin line shows getProfitMargin()
CardRender ==
    /\ card.op # "none"
    /\ card' = [card EXCEPT !.op = "render",
                            !.margin = getProfitMargin(card.sig.price,
                                                       card.sig.supplier_prices),
                            !.bump = NoBump]
    /\ UNCHANGED <<config, now, product, tasks, hist, query, analytics, fetch,
                   saved, storage, panel, notes>>

\* the composer applied to the same sub-scores with one of them increased
CardBump(cat, level) ==
    /\ card.op # "none"
    /\ level > card.subs[cat]
    /\ LET subs2 == [card.subs EXCEPT ![cat] = level]
       IN  card' = [card EXCEPT !.op = "bump", !.margin = JsNull,
                        !.bump = [cat |-> cat, subs |-> subs2,
                                  score |-> ComposeScore(DefaultWeights, subs2)]]
    /\ UNCHANGED <<config, now, product, tasks, hist, query, analytics, fetch,
                   saved, storage, panel, notes>>

(***************************************************************************)
(* Product store with concurrent score recomputation (spec 3, 4.2 and 5).  *)
(* Every signal write stamps updated_at with the clock and starts a        *)
(* recomputation task; a task reads a snapshot, normalizes and composes,   *)
(* and commits by compare-and-set on updated_at, retrying on conflict.     *)
(***************************************************************************)
Ids == {"p1", "p2"}

TaskIds == 1 .. MaxWrites

\* weight tables an operator may have left in the configuration
WeightConfigs ==
    {DefaultWeights,
     [DefaultWeights EXCEPT !.ads = 35],
     [DefaultWeights EXCEPT !.trend = 5]}

\* signal writes the crawlers issue against the stored product
StoreWrites ==
    {<<"facebook_ads", Num(MaxCount)>>,
     <<"tiktok_mentions", Num(-1)>>,
     <<"price", Num(0)>>,
     <<"supplier_prices", Suppliers([s \in {"a"} |-> Num(-10)])>>,
     <<"trend_score", Num(150)>>,
     <<"store_count", NaN>>}

NoProduct ==
    [exists |-> FALSE, id |-> "none", created_at |-> 0, updated_at |-> 0,
     sig |-> AllMissing, score |-> 0]

IdleTask == [pc |-> "idle", sig |-> AllMissing, at |-> 0, ver |-> 0, out |-> 0]

StoreInit ==
    /\ config = [status |-> "unloaded", weights |-> DefaultWeights]
    /\ now = 0
    /\ product = NoProduct
    /\ tasks = [k \in TaskIds |-> IdleTask]
    /\ hist = [ver |-> 0, scoreVer |-> 0]

\* configuration load: fail fast unless the weights are consistent
LoadConfig(w) ==
    /\ config.status = "unloaded"
    /\ config' = [status |-> IF ValidWeights(w) THEN "ready" ELSE "fatal",
                  weights |-> w]
    /\ UNCHANGED <<now, product, tasks, hist, card, query, analytics, fetch,
                   saved, storage, panel, notes>>

\* the clock advances
Tick ==
    /\ now < MaxClock
    /\ now' = now + 1
    /\ UNCHANGED <<config, product, tasks, hist, card, query, analytics,
                   fetch, saved, storage, panel, notes>>

\* the mutation stored without stamping it
Touch_keep(p, t) == p

\* updated_at is set on every mutation
Touch(p, t) == [p EXCEPT !.updated_at = t]

\* an ingestion collaborator creates the product and its first score
CreateProduct(id, sig) ==
    /\ config.status = "ready"
    /\ ~product.exists
    /\ product' = Touch([exists |-> TRUE, id |-> id, created_at |-> now,
                         updated_at |-> 0, sig |-> sig,
                         score |-> Score(config.weights, sig)], now)
    /\ UNCHANGED <<config, now, tasks, hist, card, query, analytics, fetch,
                   saved, storage, panel, notes>>

\* a collaborator writes one contributing field: recomputation is triggered
WriteSignal(field, value) ==
    /\ product.exists
    /\ hist.ver < MaxWrites
    /\ product' = Touch([product EXCEPT !.sig[field] = value], now)
    /\ hist' = [hist EXCEPT !.ver = hist.ver + 1]
    /\ tasks' = [tasks EXCEPT ![hist.ver + 1] = [IdleTask EXCEPT !.pc = "read"]]
    /\ UNCHANGED <<config, now, card, query, analytics, fetch, saved, storage,
                   panel, notes>>

\* a recomputation reads its snapshot, normalizes and composes
TaskRead(k) ==
    /\ tasks[k].pc = "read"
    /\ tasks' = [tasks EXCEPT ![k] =
                    [pc |-> "commit", sig |-> product.sig,
                     at |-> product.updated_at, ver |-> hist.ver,
                     out |-> Score(config.weights, product.sig)]]
    /\ UNCHANGED <<config, now, product, hist, card, query, analytics, fetch,
                   saved, storage, panel, notes>>

\* compare-and-set on updated_at succeeds: the score is persisted
TaskCommit(k) ==
    /\ tasks[k].pc = "commit"
    /\ product.updated_at = tasks[k].at
    /\ product' = Touch([product EXCEPT !.score = tasks[k].out], now)
    /\ hist' = [hist EXCEPT !.scoreVer = tasks[k].ver]
    /\ tasks' = [tasks EXCEPT ![k].pc = "done"]
    /\ UNCHANGED <<config, now, card, query, analytics, fetch, saved, storage,
                   panel, notes>>

\* compare-and-set fails: normalization and composition are retried
TaskRetry(k) ==
    /\ tasks[k].pc = "commit"
    /\ product.updated_at # tasks[k].at
    /\ tasks' = [tasks EXCEPT ![k].pc = "read"]
    /\ UNCHANGED <<config, now, product, hist, card, query, analytics, fetch,
                   saved, storage, panel, notes>>

(***************************************************************************)
(* Product query pipeline of the frontend: the filter predicate, the sort  *)
(* comparator and the stats aggregator that the useProducts hook and the   *)
(* products page evaluate on every render over the loaded collection.      *)
(*                                                                         *)
(* Text is a sequence of characters.  A product arrives as JSON, so any    *)
(* of its fields may be absent (undefined), a numeric field may hold a     *)
(* value that is not a number, and created_at may hold text that is not a  *)
(* date.  Scores and prices of the collection are whole numbers.           *)
(***************************************************************************)
MaxProducts == 3   \* longest product collection a fetch loads

Str(s) == [k |-> "str", s |-> s]
NoStr == [k |-> "absent", s |-> <<>>]
Tags(S) == [k |-> "set", s |-> S]
NoTags == [k |-> "absent", s |-> {}]
Undefined == "undefined"

LowerChar(c) == CASE c = "A" -> "a" [] c = "B" -> "b" [] OTHER -> c

\* String.prototype.toLowerCase
toLowerCase(s) == [i \in 1 .. Len(s) |-> LowerChar(s[i])]

\* String.prototype.includes: t occurs in s as a contiguous run
includes(s, t) ==
    \E i \in 1 .. (Len(s) - Len(t) + 1) :
        \A j \in 1 .. Len(t) : s[i + j - 1] = t[j]

\* the collection the backend serves, by product id
ProductIds == {"p1", "p2", "p3", "p4", "p5"}

Catalogue ==
    ("p1" :> [id |-> "p1", title |-> Str(<<"A", "b">>),
              description |-> Str(<<"b", "b">>), category |-> "gadgets",
              score |-> Num(80), price |-> Num(20), tags |-> Tags({"t1"}),
              source_store |-> "s1", trend_score |-> Num(50),
              created_at |-> Num(20240101), facebook_ads |-> Num(2),
              tiktok_mentions |-> Num(1)])
    @@ ("p2" :> [id |-> "p2", title |-> Str(<<"b">>), description |-> NoStr,
              category |-> "gadgets", score |-> Num(40), price |-> Num(30),
              tags |-> NoTags, source_store |-> "s2",
              trend_score |-> Absent, created_at |-> Absent,
              facebook_ads |-> Num(0), tiktok_mentions |-> Absent])
    @@ ("p3" :> [id |-> "p3", title |-> Str(<<"B">>),
              description |-> Str(<<"b", "a">>), category |-> "home",
              score |-> Num(80), price |-> Num(25),
              tags |-> Tags({"t1", "t2"}), source_store |-> "s1",
              trend_score |-> NaN, created_at |-> NaN,
              facebook_ads |-> Absent, tiktok_mentions |-> Num(3)])
    @@ ("p4" :> [id |-> "p4", title |-> NoStr, description |-> NoStr,
              category |-> Undefined, score |-> Absent, price |-> Absent,
              tags |-> NoTags, source_store |-> Undefined,
              trend_score |-> Absent, created_at |-> Absent,
              facebook_ads |-> Absent, tiktok_mentions |-> Absent])
    @@ ("p5" :> [id |-> "p5", title |-> Str(<<"b">>),
              description |-> Str(<<"b">>), category |-> "home",
              score |-> Num(60), price |-> Num(1500), tags |-> Tags({"t2"}),
              source_store |-> "s2", trend_score |-> Num(70),
              created_at |-> Num(20230615), facebook_ads |-> Num(1),
              tiktok_mentions |-> Num(1)])

\* the product a collection element refers to
Product(id) == Catalogue[id]

\* a product that carries every field the query reads, with a valid value
Complete(p) ==
    /\ p.title.k = "str" /\ p.description.k = "str"
    /\ p.category # Undefined /\ p.source_store # Undefined
    /\ IsNum(p.score) /\ IsNum(p.price) /\ p.tags.k = "set"

\* responses of GET /api/products/: sequences of distinct products
Distinct(s) == \A i, j \in 1 .. Len(s) : i # j => s[i] # s[j]

ResponseSet ==
    { s \in UNION { [1 .. n -> ProductIds] : n \in 0 .. MaxProducts } :
        Distinct(s) }

Range(s) == { s[i] : i \in 1 .. Len(s) }

(***************************************************************************)
(* Filter options and sort keys.                                           *)
(***************************************************************************)
DEFAULT_MAX_PRICE == 1000

\* useState<FilterOptions> initial value
defaultFilterOptions ==
    [searchTerm |-> <<>>, category |-> "all", minScore |-> 0,
     maxPrice |-> DEFAULT_MAX_PRICE, tags |-> {}, store |-> "all"]

\* filter options the filter panel submits
FilterChoices ==
    { defaultFilterOptions,
      [defaultFilterOptions EXCEPT !.category = "gadgets", !.minScore = 60],
      [defaultFilterOptions EXCEPT !.searchTerm = <<"A">>],
      [defaultFilterOptions EXCEPT !.tags = {"t1"}],
      [defaultFilterOptions EXCEPT !.maxPrice = 25, !.store = "s1"] }

SortOptions == {"score", "price", "price_high", "trend", "newest", "name"}

\* a sort key outside SortOption, as a caller may pass at run time
UnknownSort == "popularity"

(***************************************************************************)
(* Filter predicate.  Reading a property of an absent field throws a       *)
(* TypeError, which aborts the render; a comparison with an absent value   *)
(* is false.                                                               *)
(***************************************************************************)
TypeError == [k |-> "TypeError", items |-> <<>>]
Ok(items) == [k |-> "ok", items |-> items]

titleMatches(fo, p) ==
    includes(toLowerCase(p.title.s), toLowerCase(fo.searchTerm))

descriptionMatches(fo, p) ==
    includes(toLowerCase(p.description.s), toLowerCase(fo.searchTerm))

\* product.title.toLowerCase() is evaluated for every product, and
\* product.description.toLowerCase() when the title does not match
searchThrows(fo, p) ==
    \/ p.title.k = "absent"
    \/ ~titleMatches(fo, p) /\ p.description.k = "absent"

matchesSearch(fo, p) == titleMatches(fo, p) \/ descriptionMatches(fo, p)

matchesCategory(fo, p) == fo.category = "all" \/ p.category = fo.category

matchesScore(fo, p) == IsNum(p.score) /\ p.score.v >= fo.minScore

matchesPrice(fo, p) == IsNum(p.price) /\ p.price.v <= fo.maxPrice

\* product.tags.includes(tag) is evaluated when tags are requested
tagsThrows(fo, p) == fo.tags # {} /\ p.tags.k = "absent"

matchesTags(fo, p) == fo.tags = {} \/ \E tag \in fo.tags : tag \in p.tags.s

matchesStore(fo, p) == ~(fo.store # "all" /\ p.source_store # fo.store)

\* the hook's filter callback (search, category, score, price, tags)
hookThrows(fo, p) == searchThrows(fo, p) \/ tagsThrows(fo, p)

hookAccepts_anyclause(fo, p) ==
    \/ matchesSearch(fo, p) /\ matchesCategory(fo, p)
    \/ matchesScore(fo, p) /\ matchesPrice(fo, p) /\ matchesTags(fo, p)

hookAccepts(fo, p) ==
    /\ matchesSearch(fo, p) /\ matchesCategory(fo, p)
    /\ matchesScore(fo, p) /\ matchesPrice(fo, p) /\ matchesTags(fo, p)

\* the products page's filter callback (search, category, score, price)
pageThrows(fo, p) == searchThrows(fo, p)

pageAccepts(fo, p) ==
    /\ matchesSearch(fo, p) /\ matchesCategory(fo, p)
    /\ matchesScore(fo, p) /\ matchesPrice(fo, p)

\* Array.prototype.filter with the hook's callback: the accepted products
\* in their order, or the TypeError the callback throws
hookFilter_droplast(ps, fo) ==
    IF \E i \in 1 .. Len(ps) : hookThrows(fo, Product(ps[i])) THEN TypeError
    ELSE LET kept == SelectSeq(ps, LAMBDA id : hookAccepts(fo, Product(id)))
         IN Ok(SubSeq(kept, 1, Len(kept) - 1))

hookFilter(ps, fo) ==
    IF \E i \in 1 .. Len(ps) : hookThrows(fo, Product(ps[i])) THEN TypeError
    ELSE Ok(SelectSeq(ps, LAMBDA id : hookAccepts(fo, Product(id))))

\* Array.prototype.filter with the products page's callback
pageFilter(ps, fo) ==
    IF \E i \in 1 .. Len(ps) : pageThrows(fo, Product(ps[i])) THEN TypeError
    ELSE Ok(SelectSeq(ps, LAMBDA id : pageAccepts(fo, Product(id))))

\* the hook's client-side store filter over the fetched products
storeFiltered(ps, fo) ==
    SelectSeq(ps, LAMBDA id : matchesStore(fo, Product(id)))

(***************************************************************************)
(* Sort comparator.  A JavaScript subtraction with an operand that is not  *)
(* a number yields NaN, and Array.prototype.sort reads a NaN comparator    *)
(* result as 0.                                                            *)
(***************************************************************************)
JsMinus(a, b) == IF IsNum(a) /\ IsNum(b) THEN Num(a.v - b.v) ELSE NaN

\* x || 0: an absent value becomes 0, a value that is not a number stays
OrZero(x) == IF x.k = "absent" THEN Num(0) ELSE x

\* new Date(x || 0).getTime(): absent is the epoch, text that is not a
\* date is an Invalid Date whose time is NaN
getTime(x) == IF x.k = "absent" THEN Num(0) ELSE x

IdRank(id) ==
    CASE id = "p1" -> 1 [] id = "p2" -> 2 [] id = "p3" -> 3
      [] id = "p4" -> 4 [] id = "p5" -> 5

\* Date parsing of text that is not in a date format is implementation
\* defined: a strict engine yields an Invalid Date, a lenient one reads the
\* digits of the text
Engines == {"strict", "lenient"}

idTime(engine, id) == IF engine = "strict" THEN NaN ELSE Num(IdRank(id))

CharRank(c) == CASE c = "a" -> 1 [] c = "A" -> 2 [] c = "b" -> 3 [] c = "B" -> 4

\* first position at which two texts differ, or 0
FirstDiff(s, t) ==
    LET n == Min2(Len(s), Len(t))
        diffs == { i \in 1 .. n : s[i] # t[i] }
    IN IF diffs = {} THEN 0 ELSE SetMin(diffs)

\* lexicographic comparison by character rank: -1, 0 or 1
Lexico(s, t) ==
    LET i == FirstDiff(s, t)
    IN IF i # 0 THEN (IF CharRank(s[i]) < CharRank(t[i]) THEN -1 ELSE 1)
       ELSE IF Len(s) < Len(t) THEN -1
       ELSE IF Len(s) > Len(t) THEN 1 ELSE 0

\* String.prototype.localeCompare: by letters first, then lower case
\* before upper case
localeCompare(s, t) ==
    LET primary == Lexico(toLowerCase(s), toLowerCase(t))
    IN IF primary # 0 THEN primary ELSE Lexico(s, t)

compare_defaultscore(sortBy, a, b) ==
    CASE sortBy = "price" -> JsMinus(a.price, b.price)
      [] sortBy = "price_high" -> JsMinus(b.price, a.price)
      [] sortBy = "trend" ->
            JsMinus(OrZero(b.trend_score), OrZero(a.trend_score))
      [] sortBy = "newest" ->
            JsMinus(getTime(b.created_at), getTime(a.created_at))
      [] sortBy = "name" -> Num(localeCompare(a.title.s, b.title.s))
      [] OTHER -> JsMinus(b.score, a.score)

\* the hook's comparator; titles of products that pass the filter are text
compare(sortBy, a, b) ==
    CASE sortBy = "score" -> JsMinus(b.score, a.score)
      [] sortBy = "price" -> JsMinus(a.price, b.price)
      [] sortBy = "price_high" -> JsMinus(b.price, a.price)
      [] sortBy = "trend" ->
            JsMinus(OrZero(b.trend_score), OrZero(a.trend_score))
      [] sortBy = "newest" ->
            JsMinus(getTime(b.created_at), getTime(a.created_at))
      [] sortBy = "name" -> Num(localeCompare(a.title.s, b.title.s))
      [] OTHER -> Num(0)

\* the products page's comparator: 'newest' reads the id, and there is no
\* 'name' case
pageCompare(engine, sortBy, a, b) ==
    CASE sortBy = "score" -> JsMinus(b.score, a.score)
      [] sortBy = "price" -> JsMinus(a.price, b.price)
      [] sortBy = "price_high" -> JsMinus(b.price, a.price)
      [] sortBy = "trend" ->
            JsMinus(OrZero(b.trend_score), OrZero(a.trend_score))
      [] sortBy = "newest" ->
            JsMinus(idTime(engine, b.id), idTime(engine, a.id))
      [] OTHER -> Num(0)

\* SortCompare: the number the sort acts on
sortValue(c) == IF IsNum(c) THEN c.v ELSE 0

\* the hook comparator's results over the elements of s, by position
hookComparisons(s, sortBy) ==
    [i \in 1 .. Len(s), j \in 1 .. Len(s) |->
        sortValue(compare(sortBy, Product(s[i]), Product(s[j])))]

\* the products page comparator's results over the elements of s
pageComparisons(s, engine, sortBy) ==
    [i \in 1 .. Len(s), j \in 1 .. Len(s) |->
        sortValue(pageCompare(engine, sortBy, Product(s[i]), Product(s[j])))]

\* a consistent comparator over n elements (ECMAScript 23.1.3.30)
Consistent(c, n) ==
    \A i \in 1 .. n :
        /\ c[i, i] = 0
        /\ \A j \in 1 .. n :
              /\ (c[i, j] < 0) = (c[j, i] > 0)
              /\ (c[i, j] = 0) = (c[j, i] = 0)
              /\ c[i, j] = 0 => \A k \in 1 .. n : c[j, k] = 0 => c[i, k] = 0
              /\ c[i, j] < 0 => \A k \in 1 .. n : c[j, k] < 0 => c[i, k] < 0

\* the stable sort: an element goes after every element that compares
\* below it and after the earlier elements that compare equal to it
StableSort_unstable(s, c) ==
    LET n == Len(s)
        pos == [i \in 1 .. n |-> 1 + Cardinality({ j \in 1 .. n :
                  j # i /\ (c[j, i] < 0 \/ (c[j, i] = 0 /\ j > i)) })]
    IN [r \in 1 .. n |-> s[CHOOSE i \in 1 .. n : pos[i] = r]]

StableSort(s, c) ==
    LET n == Len(s)
        pos == [i \in 1 .. n |-> 1 + Cardinality({ j \in 1 .. n :
                  j # i /\ (c[j, i] < 0 \/ (c[j, i] = 0 /\ j < i)) })]
    IN [r \in 1 .. n |-> s[CHOOSE i \in 1 .. n : pos[i] = r]]

Reorderings(s) ==
    { [i \in 1 .. Len(s) |-> s[f[i]]] : f \in Permutations(1 .. Len(s)) }

\* Array.prototype.sort with comparator results c: stable under a
\* consistent comparator; under an inconsistent one the order is
\* implementation defined
sortOutcomes(s, c) ==
    IF Consistent(c, Len(s)) THEN {StableSort(s, c)} ELSE Reorderings(s)

\* filteredProducts of the hook: filter, then sort by the sort key
filteredProducts(ps, fo, sortBy) ==
    LET kept == hookFilter(ps, fo)
    IN IF kept = TypeError THEN {TypeError}
       ELSE { Ok(s) : s \in sortOutcomes(kept.items,
                                hookComparisons(kept.items, sortBy)) }

\* filteredAndSortedProducts of the products page
filteredAndSortedProducts(ps, fo, sortBy) ==
    LET kept == pageFilter(ps, fo)
    IN IF kept = TypeError THEN {TypeError}
       ELSE UNION { { Ok(s) : s \in sortOutcomes(kept.items,
                                 pageComparisons(kept.items, e, sortBy)) }
                    : e \in IF sortBy = "newest" THEN Engines
                                                 ELSE {"strict"} }

(***************************************************************************)
(* Stats aggregator.  A formatted number is its digits after scaling by    *)
(* the number of decimals; the literal '0' has no decimals.                *)
(***************************************************************************)
FixedStr(dec, v) == [k |-> "num", dec |-> dec, v |-> v]
NaNStr == [k |-> "NaN", dec |-> 0, v |-> 0]

JsPlus(a, b) == IF IsNum(a) /\ IsNum(b) THEN Num(a.v + b.v) ELSE NaN

\* products.reduce((sum, p) => sum + p[field], 0)
RECURSIVE reduceSum(_, _)
reduceSum(ps, field) ==
    IF ps = <<>> THEN Num(0)
    ELSE JsPlus(reduceSum(SubSeq(ps, 1, Len(ps) - 1), field),
                Product(ps[Len(ps)])[field])

\* products.reduce((sum, p) => sum + (p[field]?.length || 0), 0)
RECURSIVE reduceLength(_, _)
reduceLength(ps, field) ==
    IF ps = <<>> THEN 0
    ELSE reduceLength(SubSeq(ps, 1, Len(ps) - 1), field)
         + OrZero(Product(ps[Len(ps)])[field]).v

Pow10(d) == IF d = 0 THEN 1 ELSE IF d = 1 THEN 10 ELSE 100

\* (sum / n).toFixed(d), rounding half away from zero
toFixed(sum, n, d) ==
    IF ~IsNum(sum) THEN NaNStr
    ELSE LET q == (2 * Abs(sum.v) * Pow10(d) + n) \div (2 * n)
         IN FixedStr(d, IF sum.v < 0 THEN -q ELSE q)

HIGH_SCORE == 80

average_unguarded(ps, field, d) ==
    IF Len(ps) = 0 THEN NaNStr
    ELSE toFixed(reduceSum(ps, field), Len(ps), d)

\* products.length > 0 ? (sum / products.length).toFixed(d) : '0'
average(ps, field, d) ==
    IF Len(ps) > 0 THEN toFixed(reduceSum(ps, field), Len(ps), d)
    ELSE FixedStr(0, 0)

\* stats of the hook (frontend/hooks/useProducts.ts)
stats(ps) ==
    [k |-> "ok",
     totalProducts |-> Len(ps),
     highScoreProducts |->
        Len(SelectSeq(ps, LAMBDA id : IsNum(Product(id).score)
                                      /\ Product(id).score.v >= HIGH_SCORE)),
     averageScore |-> average(ps, "score", 1),
     averagePrice |-> average(ps, "price", 2),
     totalFacebookAds |-> reduceLength(ps, "facebook_ads"),
     totalTikTokMentions |-> reduceLength(ps, "tiktok_mentions")]

StatsError ==
    [k |-> "TypeError", totalProducts |-> 0, highScoreProducts |-> 0,
     averageScore |-> NaNStr, averagePrice |-> NaNStr,
     totalFacebookAds |-> 0, totalTikTokMentions |-> 0]

\* stats of the hook's client-side variant (unnamed/part_000), which reads
\* p.facebook_ads.length and p.tiktok_mentions.length unguarded
stats0(ps) ==
    IF \E i \in 1 .. Len(ps) :
          \/ Product(ps[i]).facebook_ads.k = "absent"
          \/ Product(ps[i]).tiktok_mentions.k = "absent"
    THEN StatsError
    ELSE stats(ps)

(***************************************************************************)
(* The hook's state and its handlers.  filteredProducts and stats are not  *)
(* state: every render computes them from products, filterOptions and      *)
(* sortBy.                                                                 *)
(***************************************************************************)
QueryInit ==
    query = [products |-> <<>>, filterOptions |-> defaultFilterOptions,
             sortBy |-> "score"]

\* setProducts(response.data.data || [])
setProducts(ps) ==
    /\ query' = [query EXCEPT !.products = ps]
    /\ UNCHANGED <<config, now, product, tasks, hist, card, analytics, fetch,
                   saved, storage, panel, notes>>

\* updateFilterOptions: setFilterOptions(prev => ({ ...prev, ...newOptions }))
updateFilterOptions(fo) ==
    /\ query' = [query EXCEPT !.filterOptions = fo]
    /\ UNCHANGED <<config, now, product, tasks, hist, card, analytics, fetch,
                   saved, storage, panel, notes>>

setSortBy(sortBy) ==
    /\ query' = [query EXCEPT !.sortBy = sortBy]
    /\ UNCHANGED <<config, now, product, tasks, hist, card, analytics, fetch,
                   saved, storage, panel, notes>>

\* clearFilters: default filter options and sort by score
clearFilters ==
    /\ query' = [query EXCEPT !.filterOptions = defaultFilterOptions,
                              !.sortBy = "score"]
    /\ UNCHANGED <<config, now, product, tasks, hist, card, analytics, fetch,
                   saved, storage, panel, notes>>

\* what the current render shows: the outcomes the sort may produce
hookView ==
    filteredProducts(query.products, query.filterOptions, query.sortBy)

pageView == filteredAndSortedProducts(query.products, query.filterOptions, query.sortBy)

storeView == storeFiltered(query.products, query.filterOptions)

(***************************************************************************)
(* Derived lists of a component that holds a product collection in its     *)
(* state.  Array.prototype.filter returns a new array, so the sort that    *)
(* follows a filter reorders that new array; Array.prototype.sort called   *)
(* on the collection itself reorders the collection in place and returns   *)
(* it.                                                                     *)
(***************************************************************************)
TOP_N == 5

\* Array.prototype.slice(0, n)
slice(s, n) == SubSeq(s, 1, Min2(n, Len(s)))

Computed(op, products, derived) ==
    [products |-> products, op |-> op, derived |-> derived]

AnalyticsInit == analytics = Computed("none", <<>>, Ok(<<>>))

\* setProducts(response.data.data || [])
analyticsSetProducts(ps) ==
    /\ analytics' = Computed("load", ps, Ok(<<>>))
    /\ UNCHANGED <<config, now, product, tasks, hist, card, query, fetch,
                   saved, storage, panel, notes>>

\* products.filter(...).sort(...) of the hook
computeFilteredProducts(fo, sortBy) ==
    /\ \E r \in filteredProducts(analytics.products, fo, sortBy) :
          analytics' = Computed("filteredProducts", analytics.products, r)
    /\ UNCHANGED <<config, now, product, tasks, hist, card, query, fetch,
                   saved, storage, panel, notes>>

\* products.filter(...).sort(...) of the products page
computeFilteredAndSortedProducts(fo, sortBy) ==
    /\ \E r \in filteredAndSortedProducts(analytics.products, fo, sortBy) :
          analytics' = Computed("filteredAndSortedProducts",
                                analytics.products, r)
    /\ UNCHANGED <<config, now, product, tasks, hist, card, query, fetch,
                   saved, storage, panel, notes>>

\* the stats object of the hook
computeStats ==
    /\ analytics' = Computed("stats", analytics.products,
                             Ok(<<stats(analytics.products).totalProducts>>))
    /\ UNCHANGED <<config, now, product, tasks, hist, card, query, fetch,
                   saved, storage, panel, notes>>

\* topProducts of the analytics page: products.sort(...).slice(0, 5)
computeTopProducts ==
    /\ \E sorted \in sortOutcomes(analytics.products,
                        hookComparisons(analytics.products, "score")) :
          analytics' = Computed("topProducts", sorted,
                                Ok(slice(sorted, TOP_N)))
    /\ UNCHANGED <<config, now, product, tasks, hist, card, query, fetch,
                   saved, storage, panel, notes>>

(***************************************************************************)
(* Product fetch of the hooks.  fetchProducts of hooks/useProducts.ts      *)
(* builds the request from filterOptions and sortBy and runs again, from   *)
(* the effect, whenever either changes; fetchProducts of unnamed/part_000  *)
(* (and of pages/products.tsx) sends no parameters and runs on mount and   *)
(* on refresh.  A request stays in flight until its response arrives;      *)
(* responses arrive in any order.                                          *)
(***************************************************************************)
MaxInFlight == 2   \* most requests in flight at a time

Hooks == {"useProducts", "part_000"}

FetchFilters ==
    { defaultFilterOptions,
      [defaultFilterOptions EXCEPT !.maxPrice = 25, !.store = "s1"] }

FetchSorts == {"score", "price"}

\* the URLSearchParams of a request: a parameter at its neutral value is
\* not sent
buildParams(fo, sortBy) ==
    [search |-> IF fo.searchTerm # <<>> THEN Str(fo.searchTerm) ELSE NoStr,
     category |-> IF fo.category # "all" THEN fo.category ELSE Undefined,
     min_score |-> IF fo.minScore > 0 THEN Num(fo.minScore) ELSE Absent,
     max_price |-> IF fo.maxPrice < DEFAULT_MAX_PRICE THEN Num(fo.maxPrice)
                   ELSE Absent,
     tags |-> IF fo.tags # {} THEN Tags(fo.tags) ELSE NoTags,
     store |-> IF fo.store # "all" THEN fo.store ELSE Undefined,
     sort_by |-> sortBy]

\* axios.get('http://localhost:8000/api/products/') without parameters
NoParams == buildParams(defaultFilterOptions, "score")

\* the collection behind GET /api/products/
ServerCollection == <<"p1", "p2", "p3", "p5">>

serverAccepts(params, p) ==
    /\ params.search.k = "absent"
       \/ includes(toLowerCase(p.title.s), toLowerCase(params.search.s))
       \/ includes(toLowerCase(p.description.s),
                   toLowerCase(params.search.s))
    /\ params.category = Undefined \/ p.category = params.category
    /\ params.min_score.k = "absent" \/ p.score.v >= params.min_score.v
    /\ params.max_price.k = "absent" \/ p.price.v <= params.max_price.v
    /\ params.tags.k = "absent" \/ params.tags.s \cap p.tags.s # {}
    /\ params.store = Undefined \/ p.source_store = params.store

\* data of the response to a request: the accepted products, first page,
\* in descending order of the sort field
responseData(params) ==
    LET kept == SelectSeq(ServerCollection,
                          LAMBDA id : serverAccepts(params, Product(id)))
        key == IF params.sort_by = "price" THEN "price_high"
               ELSE params.sort_by
    IN StableSort(kept, hookComparisons(kept, key))

NoError == "null"
MESSAGE == "Database unavailable"
FAILED == "Failed to fetch products"
NOT_FOUND == "API endpoint not found. Please check if the backend is running."
NETWORK_ERROR == "Network Error"

\* what comes back for a request: a success envelope with data, a
\* success=false envelope with or without a message and without data, a
\* 404 or a network failure
Outcomes == {"ok", "fail_message", "fail", "throw_404", "throw"}

Failures == {"fail_message", "fail"}

FetchInit ==
    fetch = [hook |-> "none", loading |-> TRUE, error |-> NoError,
             inflight |-> <<>>, last |-> "none"]

\* the synchronous head of fetchProducts: setLoading(true), setError(null)
\* and the request
requested(hook, params) ==
    [fetch EXCEPT !.hook = hook,
                  !.loading = TRUE,
                  !.error = NoError,
                  !.inflight = Append(@, params),
                  !.last = "none"]

\* the effect on mount
mount(hook) ==
    /\ fetch.hook = "none"
    /\ fetch' = requested(hook, IF hook = "useProducts"
                                THEN buildParams(query.filterOptions,
                                                 query.sortBy)
                                ELSE NoParams)
    /\ UNCHANGED <<config, now, product, tasks, hist, card, query, analytics,
                   saved, storage, panel, notes>>

\* refreshProducts
refreshProducts ==
    /\ fetch.hook # "none"
    /\ Len(fetch.inflight) < MaxInFlight
    /\ fetch' = requested(fetch.hook,
                          IF fetch.hook = "useProducts"
                          THEN buildParams(query.filterOptions, query.sortBy)
                          ELSE NoParams)
    /\ UNCHANGED <<config, now, product, tasks, hist, card, query, analytics,
                   saved, storage, panel, notes>>

\* setFilterOptions of hooks/useProducts.ts: the new filterOptions make a
\* new fetchProducts, which the effect runs
fetchOnFilterOptions(fo) ==
    /\ fetch.hook = "useProducts"
    /\ Len(fetch.inflight) < MaxInFlight
    /\ query' = [query EXCEPT !.filterOptions = fo]
    /\ fetch' = requested(fetch.hook, buildParams(fo, query.sortBy))
    /\ UNCHANGED <<config, now, product, tasks, hist, card, analytics, saved,
                   storage, panel, notes>>

\* setSortBy of hooks/useProducts.ts, and the effect
fetchOnSortBy(sortBy) ==
    /\ fetch.hook = "useProducts"
    /\ Len(fetch.inflight) < MaxInFlight
    /\ query' = [query EXCEPT !.sortBy = sortBy]
    /\ fetch' = requested(fetch.hook,
                          buildParams(query.filterOptions, sortBy))
    /\ UNCHANGED <<config, now, product, tasks, hist, card, analytics, saved,
                   storage, panel, notes>>

\* removal of the i-th element
RemoveAt(s, i) == SubSeq(s, 1, i - 1) \o SubSeq(s, i + 1, Len(s))

\* the error a rejected request sets in hooks/useProducts.ts
thrownError(outcome) ==
    IF outcome = "throw_404" THEN NOT_FOUND ELSE NETWORK_ERROR

\* the rest of fetchProducts of hooks/useProducts.ts, run when the
\* response to the i-th request in flight arrives
fetchResponse(i, outcome) ==
    /\ fetch.hook = "useProducts"
    /\ i \in 1 .. Len(fetch.inflight)
    /\ query' = [query EXCEPT !.products =
                    IF outcome = "ok" THEN responseData(fetch.inflight[i])
                    ELSE @]
    /\ fetch' = [fetch EXCEPT
                    !.error = IF outcome = "fail_message" THEN MESSAGE
                              ELSE IF outcome = "fail" THEN FAILED
                              ELSE IF outcome = "ok" THEN @
                              ELSE thrownError(outcome),
                    !.loading = FALSE,
                    !.inflight = RemoveAt(@, i),
                    !.last = outcome]
    /\ UNCHANGED <<config, now, product, tasks, hist, card, analytics, saved,
                   storage, panel, notes>>

\* the rest of fetchProducts of unnamed/part_000: the envelope's success
\* field is not read
fetchResponse0(i, outcome) ==
    /\ fetch.hook = "part_000"
    /\ i \in 1 .. Len(fetch.inflight)
    /\ query' = [query EXCEPT !.products =
                    IF outcome = "ok" THEN responseData(fetch.inflight[i])
                    ELSE IF outcome \in Failures THEN <<>>
                    ELSE @]
    /\ fetch' = [fetch EXCEPT
                    !.error = IF outcome \in {"ok"} \cup Failures THEN @
                              ELSE FAILED,
                    !.loading = FALSE,
                    !.inflight = RemoveAt(@, i),
                    !.last = outcome]
    /\ UNCHANGED <<config, now, product, tasks, hist, card, analytics, saved,
                   storage, panel, notes>>

(***************************************************************************)
(* Saved products.  The hook keeps savedProducts in its state, the         *)
(* products page keeps its own list, and the dashboard keeps a list in     *)
(* useLocalStorage under the key 'savedProducts'.  odd records, for each   *)
(* list, the ids toggled an odd number of times.                           *)
(***************************************************************************)
Savable == {"p1", "p2", "p3"}

\* prev.filter(id => id !== productId)
without(prev, productId) == SelectSeq(prev, LAMBDA id : id # productId)

\* prev.includes(productId) ? prev.filter(...) : [...prev, productId]
toggle_keep(prev, productId) ==
    IF productId \in Range(prev) THEN prev ELSE Append(prev, productId)

toggle(prev, productId) ==
    IF productId \in Range(prev) THEN without(prev, productId)
    ELSE Append(prev, productId)

\* symmetric difference with one id
flip(S, id) == IF id \in S THEN S \ {id} ELSE S \cup {id}

SavedInit ==
    saved = [hook |-> <<>>, page |-> <<>>,
             odd |-> [hook |-> {}, page |-> {}, stored |-> {}]]

\* useLocalStorage: storedValue is the state, seen is the storedValue of
\* the last render, which setValue and the handlers of that render close
\* over, item is the text persisted under the key, and last names the
\* call made last

\* JSON.stringify of a list of ids, as the sequence of its tokens
RECURSIVE joined(_)
joined(list) ==
    IF Len(list) <= 1 THEN list
    ELSE <<Head(list), ",">> \o joined(Tail(list))

stringify(list) == <<"[">> \o joined(list) \o <<"]">>

\* JSON.parse of such a text
parse(text) == SelectSeq(text, LAMBDA token : token \notin {"[", ",", "]"})

\* window.localStorage.getItem(key) when nothing is stored
NoItem == <<>>

StorageInit ==
    storage = [storedValue |-> <<>>, seen |-> <<>>, item |-> NoItem,
               last |-> [op |-> "none", id |-> "none"]]

\* toggleSavedProduct of the hook
toggleSavedProduct(productId) ==
    /\ saved' = [saved EXCEPT !.hook = toggle(@, productId),
                              !.odd.hook = flip(@, productId)]
    /\ UNCHANGED <<config, now, product, tasks, hist, card, query, analytics,
                   fetch, storage, panel, notes>>

\* handleSaveProduct of the products page, and the render that follows
\* the click
pageSaveProduct(productId) ==
    /\ saved' = [saved EXCEPT
                    !.page = IF productId \in Range(saved.page)
                             THEN without(saved.page, productId)
                             ELSE Append(saved.page, productId),
                    !.odd.page = flip(@, productId)]
    /\ UNCHANGED <<config, now, product, tasks, hist, card, query, analytics,
                   fetch, storage, panel, notes>>

\* handleSaveProduct of the dashboard, and the render that follows the
\* click: toggleSavedProduct, then setSavedProducts with an updater chosen
\* by isSaved
handleSaveProduct(productId) ==
    LET isSaved == productId \in Range(storage.seen)
        valueToStore == IF isSaved THEN without(storage.seen, productId)
                        ELSE Append(storage.seen, productId)
    IN /\ saved' = [saved EXCEPT !.hook = toggle(@, productId),
                                 !.odd.hook = flip(@, productId),
                                 !.odd.stored = flip(@, productId)]
       /\ storage' = [storage EXCEPT !.storedValue = valueToStore,
                                     !.item = stringify(valueToStore),
                                     !.seen = valueToStore,
                                     !.last = [op |-> "handleSaveProduct",
                                               id |-> productId]]
       /\ UNCHANGED <<config, now, product, tasks, hist, card, query,
                      analytics, fetch, panel, notes>>

(***************************************************************************)
(* Filter panel of the dashboard.  The panel copies filterOptions into     *)
(* localFilters when it is mounted and edits the copy; 'Apply Filters'     *)
(* hands the copy to the hook.  last names the control used last.          *)
(***************************************************************************)
\* useState<FilterOptions>(filterOptions)
PanelInit ==
    panel = [localFilters |-> defaultFilterOptions, last |-> "none"]

\* products that a fetch of the dashboard loads
PanelLoads == { s \in ResponseSet : Len(s) <= 1 }

panelSetProducts(ps) ==
    /\ query' = [query EXCEPT !.products = ps]
    /\ panel' = [panel EXCEPT !.last = "load"]
    /\ UNCHANGED <<config, now, product, tasks, hist, card, analytics, fetch,
                   saved, storage, notes>>

\* the controls of the panel: setLocalFilters({ ...localFilters, ... })
setLocalFilters(fo) ==
    /\ panel' = [localFilters |-> fo, last |-> "edit"]
    /\ UNCHANGED <<config, now, product, tasks, hist, card, query, analytics,
                   fetch, saved, storage, notes>>

\* the sort select of the dashboard
sortSelect(sortBy) ==
    /\ query' = [query EXCEPT !.sortBy = sortBy]
    /\ panel' = [panel EXCEPT !.last = "sort"]
    /\ UNCHANGED <<config, now, product, tasks, hist, card, analytics, fetch,
                   saved, storage, notes>>

\* 'Apply Filters': onFilterChange(localFilters), which the hook merges
\* into filterOptions
handleApplyFilters ==
    /\ query' = [query EXCEPT !.filterOptions = panel.localFilters]
    /\ panel' = [panel EXCEPT !.last = "apply"]
    /\ UNCHANGED <<config, now, product, tasks, hist, card, analytics, fetch,
                   saved, storage, notes>>

\* 'Reset All': setLocalFilters(resetFilters), then onClearFilters()
handleReset ==
    /\ query' = [query EXCEPT !.filterOptions = defaultFilterOptions,
                              !.sortBy = "score"]
    /\ panel' = [localFilters |-> defaultFilterOptions, last |-> "reset"]
    /\ UNCHANGED <<config, now, product, tasks, hist, card, analytics, fetch,
                   saved, storage, notes>>

\* 'Clear Filters' of the empty state, shown when no product passes the
\* filter: onClick={clearFilters}
emptyStateClearFilters ==
    /\ storeView = <<>>
    /\ query' = [query EXCEPT !.filterOptions = defaultFilterOptions,
                              !.sortBy = "score"]
    /\ panel' = [panel EXCEPT !.last = "clear"]
    /\ UNCHANGED <<config, now, product, tasks, hist, card, analytics, fetch,
                   saved, storage, notes>>

(***************************************************************************)
(* Notifications.  addNotification draws the id at random, appends the     *)
(* notification and, unless its duration is 0, sets a timer that calls     *)
(* removeNotification(id).  A timer stays pending until it fires; nothing  *)
(* cancels it.  last names the call made last.                             *)
(***************************************************************************)
MaxNotifications == 3   \* most notifications added in a run

DEFAULT_DURATION == 5000

\* Math.random().toString(36).substr(2, 9)
NotificationIds == {"n1", "n2"}

\* duration?: number
Durations == {Num(0), Absent, Num(3000)}

\* notification.duration || 5000
timeout(duration) ==
    IF IsNum(duration) /\ duration.v # 0 THEN duration.v ELSE DEFAULT_DURATION

Called(op, id) == [op |-> op, id |-> id]

NotesInit ==
    notes = [notifications |-> <<>>, timers |-> {}, added |-> 0,
             last |-> Called("none", "none")]

\* prev.filter(notification => notification.id !== id)
dismiss_first(prev, id) ==
    IF prev # <<>> THEN Tail(prev) ELSE prev

dismiss(prev, id) == SelectSeq(prev, LAMBDA notification : notification.id # id)

addNotification(id, duration) ==
    /\ notes.added < MaxNotifications
    /\ notes' = [notifications |->
                    Append(notes.notifications,
                           [id |-> id, duration |-> duration]),
                 timers |->
                    IF duration # Num(0)
                    THEN notes.timers \cup
                         {[id |-> id, duration |-> duration,
                           delay |-> timeout(duration),
                           n |-> notes.added + 1]}
                    ELSE notes.timers,
                 added |-> notes.added + 1,
                 last |-> Called("addNotification", id)]
    /\ UNCHANGED <<config, now, product, tasks, hist, card, query, analytics,
                   fetch, saved, storage, panel>>

\* removeNotification called from the close button or by a consumer
removeNotification(id) ==
    /\ notes' = [notes EXCEPT !.notifications = dismiss(@, id),
                              !.last = Called("removeNotification", id)]
    /\ UNCHANGED <<config, now, product, tasks, hist, card, query, analytics,
                   fetch, saved, storage, panel>>

\* the callback of a pending timer: removeNotification(id)
timerFires(t) ==
    /\ t \in notes.timers
    /\ notes' = [notes EXCEPT !.notifications = dismiss(@, t.id),
                              !.timers = @ \ {t},
                              !.last = Called("timer", t.id)]
    /\ UNCHANGED <<config, now, product, tasks, hist, card, query, analytics,
                   fetch, saved, storage, panel>>

\* setNotifications([])
clearAll ==
    /\ notes' = [notes EXCEPT !.notifications = <<>>,
                              !.last = Called("clearAll", "none")]
    /\ UNCHANGED <<config, now, product, tasks, hist, card, query, analytics,
                   fetch, saved, storage, panel>>

(***************************************************************************)
(* useLocalStorage.  setValue is made anew by every render and closes      *)
(* over the storedValue of that render; it sets the state and writes the   *)
(* item.  localStorage.setItem may throw (quota), which setValue catches   *)
(* after the state was set.                                                *)
(***************************************************************************)
MaxSaved == 2   \* longest saved list

\* the updaters of the dashboard: prev => [...prev, id] and
\* prev => prev.filter(...)
Updaters == {"add", "remove"}

apply(updater, id, val) ==
    IF updater = "add" THEN Append(val, id) ELSE without(val, id)

\* setValue(fn): value(storedValue), setStoredValue, setItem
setValue(updater, id, persisted) ==
    LET valueToStore == apply(updater, id, storage.seen)
    IN /\ Len(valueToStore) <= MaxSaved
       /\ storage' = [storage EXCEPT
                        !.storedValue = valueToStore,
                        !.item = IF persisted THEN stringify(valueToStore)
                                 ELSE @,
                        !.last = [op |-> IF persisted THEN updater
                                         ELSE "failed",
                                  id |-> id]]
       /\ UNCHANGED <<config, now, product, tasks, hist, card, query,
                      analytics, fetch, saved, panel, notes>>

\* the render after a state change: the new setValue closes over the
\* current storedValue
storageRender ==
    /\ storage.seen # storage.storedValue \/ storage.last.op # "render"
    /\ storage' = [storage EXCEPT !.seen = storage.storedValue,
                                  !.last = [op |-> "render", id |-> "none"]]
    /\ UNCHANGED <<config, now, product, tasks, hist, card, query, analytics,
                   fetch, saved, panel, notes>>

(***************************************************************************)
(* Specifications.                                                         *)
(***************************************************************************)
Init ==
    /\ StoreInit /\ CardInit /\ QueryInit /\ AnalyticsInit /\ FetchInit
    /\ SavedInit /\ StorageInit /\ PanelInit /\ NotesInit

Next ==
    \/ \E w \in WeightConfigs : LoadConfig(w)
    \/ Tick
    \/ \E id \in Ids, sig \in InitialSignals : CreateProduct(id, sig)
    \/ \E wr \in StoreWrites : WriteSignal(wr[1], wr[2])
    \/ \E k \in TaskIds : TaskRead(k)
    \/ \E k \in TaskIds : TaskCommit(k)
    \/ \E k \in TaskIds : TaskRetry(k)

Spec == Init /\ [][Next]_vars

ScoreNext ==
    \/ \E sig \in InitialSignals : CardCreate(sig)
    \/ \E f \in Fields : \E v \in Inputs(f) : CardWrite(f, v)
    \/ CardRender
    \/ \E c \in Categories, l \in BumpLevels : CardBump(c, l)

SpecScore == Init /\ [][ScoreNext]_vars

QueryNext ==
    \/ \E ps \in ResponseSet : setProducts(ps)
    \/ \E fo \in FilterChoices : updateFilterOptions(fo)
    \/ \E sortBy \in SortOptions \cup {UnknownSort} : setSortBy(sortBy)
    \/ clearFilters

SpecQuery == Init /\ [][QueryNext]_vars

DerivedNext ==
    \/ \E ps \in ResponseSet : analyticsSetProducts(ps)
    \/ \E fo \in FilterChoices, sortBy \in SortOptions :
          computeFilteredProducts(fo, sortBy)
    \/ \E fo \in FilterChoices, sortBy \in SortOptions :
          computeFilteredAndSortedProducts(fo, sortBy)
    \/ computeStats
    \/ computeTopProducts

SpecDerived == Init /\ [][DerivedNext]_vars

FetchNext ==
    \/ \E hook \in Hooks : mount(hook)
    \/ refreshProducts
    \/ \E fo \in FetchFilters : fetchOnFilterOptions(fo)
    \/ \E sortBy \in FetchSorts : fetchOnSortBy(sortBy)
    \/ \E i \in 1 .. MaxInFlight, outcome \in Outcomes :
          fetchResponse(i, outcome)
    \/ \E i \in 1 .. MaxInFlight, outcome \in Outcomes :
          fetchResponse0(i, outcome)

SpecFetch == Init /\ [][FetchNext]_vars

SavedNext ==
    \/ \E id \in Savable : toggleSavedProduct(id)
    \/ \E id \in Savable : pageSaveProduct(id)
    \/ \E id \in Savable : handleSaveProduct(id)

SpecSaved == Init /\ [][SavedNext]_vars

PanelNext ==
    \/ \E ps \in PanelLoads : panelSetProducts(ps)
    \/ \E fo \in FilterChoices : setLocalFilters(fo)
    \/ \E sortBy \in SortOptions : sortSelect(sortBy)
    \/ handleApplyFilters
    \/ handleReset
    \/ emptyStateClearFilters

SpecPanel == Init /\ [][PanelNext]_vars

\* every timer that can be set
Timers ==
    { [id |-> id, duration |-> d, delay |-> timeout(d), n |-> n] :
        id \in NotificationIds, d \in Durations \ {Num(0)},
        n \in 1 .. MaxNotifications }

NotifyNext ==
    \/ \E id \in NotificationIds, d \in Durations : addNotification(id, d)
    \/ \E id \in NotificationIds : removeNotification(id)
    \/ \E t \in Timers : timerFires(t)
    \/ clearAll

SpecNotify == Init /\ [][NotifyNext]_vars

\* the event loop runs the callback of every pending timer
SpecNotifyFair ==
    SpecNotify /\ \A t \in Timers : WF_vars(timerFires(t))

StorageNext ==
    \/ \E updater \in Updaters, id \in Savable, persisted \in BOOLEAN :
          setValue(updater, id, persisted)
    \/ storageRender

SpecStorage == Init /\ [][StorageNext]_vars

(***************************************************************************)
(* Properties of the product store (specification Spec).                   *)
(***************************************************************************)
Quiescent == \A k \in TaskIds : tasks[k].pc \in {"idle", "done"}

\* C1: after any sequence of creations, signal writes (missing, zero,
\* negative and out-of-domain values included) and recomputations, the
\* stored score lies in [0,100], and so does every score a recomputation
\* is about to commit.
C1_ScoreInRange ==
    /\ product.exists => product.score \in 0 .. 1000
    /\ \A k \in TaskIds :
          tasks[k].pc \in {"commit", "done"} => tasks[k].out \in 0 .. 1000

\* C1 witness: a recomputation committed a score for a product that was
\* written an out-of-domain signal.
C1_Witness ==
    /\ product.exists
    /\ \E k \in TaskIds : tasks[k].pc = "done"
    /\ \/ product.sig["trend_score"] = Num(150)
       \/ product.sig["tiktok_mentions"] = Num(-1)
       \/ product.sig["store_count"] = NaN
    /\ product.score \in 0 .. 1000

C9_WeightsConsistent ==
    /\ SumWeights(DefaultWeights) = 100
    /\ config.status = "ready" => SumWeights(config.weights) = 100
    /\ config.status = "fatal" => SumWeights(config.weights) # 100
    /\ (product.exists \/ ~Quiescent \/ hist.ver > 0) =>
          config.status = "ready" /\ SumWeights(config.weights) = 100

\* C9 witness: a configuration with inconsistent weights was rejected at
\* load and nothing has been scored.
C9_Witness ==
    /\ config.status = "fatal"
    /\ SumWeights(config.weights) = 105
    /\ ~product.exists

\* C10: updated_at never decreases, every mutation of the product stamps
\* updated_at with the current clock, and the id of an existing product
\* never changes.
C10_Timestamps ==
    [][/\ product'.updated_at >= product.updated_at
       /\ product' # product => product'.updated_at = now'
       /\ product.exists => product'.exists /\ product'.id = product.id
       /\ product'.exists => product'.created_at <= product'.updated_at]_vars

\* C10 witness: the product was mutated after the clock advanced past its
\* creation, by a signal write and by a committed recomputation.
C10_Witness ==
    /\ product.exists
    /\ product.updated_at > product.created_at
    /\ hist.ver > 0
    /\ \E k \in TaskIds : tasks[k].pc = "done"

(***************************************************************************)
(* Properties of the scoring pipeline and the product card (specification  *)
(* SpecScore).                                                             *)
(***************************************************************************)
Scored == card.op \in {"create", "write"}

\* negative, non-numeric or non-finite
Malformed(x) == x.k \in {"nan", "inf"} \/ (IsNum(x) /\ x.v < 0)

\* C4 (as claimed): raising any one of the five sub-scores, the other four
\* held fixed, never lowers the composed score.
C4_MonotoneAll == card.op = "bump" => card.bump.score >= card.score

\* C4 (amended): raising one of the ads, mentions, margin and trend
\* sub-scores never lowers the composed score, and raising the saturation
\* sub-score never raises it.
C4_Monotone ==
    card.op = "bump" =>
        IF card.bump.cat = "saturation"
        THEN card.bump.score <= card.score
        ELSE card.bump.score >= card.score

\* C4 witness: the trend sub-score alone was raised and the composed score
\* rose with it.
C4_Witness ==
    /\ card.op = "bump"
    /\ card.bump.cat = "trend"
    /\ card.bump.score > card.score

\* C5: a product with every signal missing normalizes to 0 for ads,
\* mentions, margin and trend and to 0.5 for saturation, and its composed
\* score is exactly 7.5.
C5_AllMissing ==
    (Scored /\ card.sig = AllMissing) =>
        /\ card.subs = [ads |-> 0, mentions |-> 0, margin |-> 0, trend |-> 0,
                        saturation |-> 500]
        /\ card.score = 75

\* C5 witness: the product was created with no signal and has been scored.
C5_Witness == card.op = "create" /\ card.sig = AllMissing /\ card.score = 75

C7_MarginBounded ==
    (/\ card.op = "render"
     /\ card.margin # JsNull
     /\ WellFormed(card.sig["price"])) =>
        /\ card.margin.k = "num"
        /\ card.margin.v \in 0 .. 1000
        /\ (DOMAIN card.sig["supplier_prices"].m = {}
            \/ card.sig["price"].v = 0) => card.margin.v = 0

Loaded == Range(query.products)

\* term occurs in text, letter case ignored
InText(term, text) ==
    \E k \in 0 .. (Len(text) - Len(term)) :
        \A j \in 1 .. Len(term) : LowerChar(text[k + j]) = LowerChar(term[j])

\* the clauses of the filter table, each inactive at its neutral value
SearchClause(fo, p) ==
    InText(fo.searchTerm, p.title.s) \/ InText(fo.searchTerm, p.description.s)

CategoryClause(fo, p) == fo.category = "all" \/ p.category = fo.category

ScoreClause(fo, p) == IsNum(p.score) /\ p.score.v >= fo.minScore

PriceClause(fo, p) == IsNum(p.price) /\ p.price.v <= fo.maxPrice

TagsClause(fo, p) == fo.tags = {} \/ fo.tags \cap p.tags.s # {}

StoreClause(fo, p) == fo.store = "all" \/ p.source_store = fo.store

C12_DefaultsAcceptAll ==
    (/\ query.filterOptions = defaultFilterOptions
     /\ \A id \in Loaded : Complete(Product(id)))
    => \A out \in hookView : out.k = "ok" /\ Range(out.items) = Loaded

\* C13 (as claimed): the filter predicate never raises; a product that
\* lacks a field an active clause reads is left out of the result and the
\* query completes.
C13_FilterNeverRaises ==
    /\ hookFilter(query.products, query.filterOptions).k = "ok"
    /\ pageFilter(query.products, query.filterOptions).k = "ok"

\* C14: filtering is idempotent: the predicate applied to an already
\* filtered result returns that result, in the hook, on the products page
\* and for the store filter.
C14_FilterIdempotent ==
    LET fo == query.filterOptions
        kept == hookFilter(query.products, fo)
        pageKept == pageFilter(query.products, fo)
    IN /\ kept.k = "ok" => hookFilter(kept.items, fo) = kept
       /\ pageKept.k = "ok" => pageFilter(pageKept.items, fo) = pageKept
       /\ storeFiltered(storeView, fo) = storeView

\* C14 witness: a filter that dropped one product and kept another is
\* applied again to what it kept.
C14_Witness ==
    LET fo == query.filterOptions
        kept == hookFilter(query.products, fo)
    IN /\ kept.k = "ok"
       /\ kept.items # <<>>
       /\ Len(kept.items) < Len(query.products)
       /\ hookFilter(kept.items, fo) = kept

\* the sequence s is in descending score order with equal scores in
\* ascending id order
ScoreThenId(s) ==
    \A i, j \in 1 .. Len(s) :
        i < j =>
           \/ Product(s[i]).score.v > Product(s[j]).score.v
           \/ /\ Product(s[i]).score.v = Product(s[j]).score.v
              /\ IdRank(s[i]) < IdRank(s[j])

\* C15 (as claimed): sorted by 'score' the result is in descending score
\* order and products of equal score are in ascending id order, whatever
\* the order of the input.
C15_ScoreTiesById ==
    query.sortBy = "score" =>
        \A out \in hookView \cup pageView :
            out.k = "ok" => ScoreThenId(out.items)

\* the outcomes of sorting s again by the hook's comparator
Resorted(s) == sortOutcomes(s, hookComparisons(s, query.sortBy))

\* C16: sorting by 'score' is idempotent: sorting a result that is
\* already sorted by score yields the same order, ties included.
C16_SortIdempotent ==
    query.sortBy = "score" =>
        \A out \in hookView : out.k = "ok" => Resorted(out.items) = {out.items}

\* C16 witness: a collection that was not in score order, holding two
\* products of equal score, has been sorted, and sorting it again keeps
\* the order.
C16_Witness ==
    /\ query.sortBy = "score"
    /\ query.products = <<"p2", "p3", "p1">>
    /\ hookView = {Ok(<<"p3", "p1", "p2">>)}
    /\ Product("p3").score = Product("p1").score
    /\ Resorted(<<"p3", "p1", "p2">>) = {<<"p3", "p1", "p2">>}

\* every created_at of the loaded collection is a date or is missing
DatesValid == \A id \in Loaded : Product(id).created_at.k # "nan"

\* in s every product with a created_at precedes every product without
DatedFirst(s) ==
    \A i, j \in 1 .. Len(s) :
        (/\ IsNum(Product(s[i]).created_at)
         /\ Product(s[j]).created_at.k = "absent") => i < j

\* C17 (as claimed): sorted by 'newest' a product with a created_at
\* (2024-01-01) precedes every product that has no created_at.
C17_NewestDatedFirst ==
    (query.sortBy = "newest" /\ DatesValid) =>
        \A out \in hookView \cup pageView :
            out.k = "ok" => DatedFirst(out.items)

\* the hook's comparator orders a before b
Less(a, b) == sortValue(compare(query.sortBy, Product(a), Product(b))) < 0

Incomparable(a, b) == ~Less(a, b) /\ ~Less(b, a)

\* C18 (as claimed): over the products that reach the sort, the
\* comparator of the current sort key is a strict weak ordering:
\* irreflexive, asymmetric, transitive, with transitive incomparability.
C18_StrictWeakOrder ==
    LET kept == hookFilter(query.products, query.filterOptions)
    IN kept.k = "ok" =>
          \A a, b, c \in Range(kept.items) :
              /\ ~Less(a, a)
              /\ Less(a, b) => ~Less(b, a)
              /\ (Less(a, b) /\ Less(b, c)) => Less(a, c)
              /\ (Incomparable(a, b) /\ Incomparable(b, c))
                    => Incomparable(a, c)

EmptyStats ==
    [k |-> "ok", totalProducts |-> 0, highScoreProducts |-> 0,
     averageScore |-> FixedStr(0, 0), averagePrice |-> FixedStr(0, 0),
     totalFacebookAds |-> 0, totalTikTokMentions |-> 0]

\* C20: over an empty collection the stats are totalProducts 0,
\* highScoreProducts 0, averageScore '0', averagePrice '0',
\* totalFacebookAds 0 and totalTikTokMentions 0, without error.
C20_EmptyStats ==
    query.products = <<>> =>
        /\ stats(query.products) = EmptyStats
        /\ stats0(query.products) = EmptyStats

\* C20 witness: a render after the sort key was changed computes the
\* stats of an empty collection.
C20_Witness ==
    /\ query.products = <<>>
    /\ query.sortBy = "price"
    /\ stats(query.products).averageScore = FixedStr(0, 0)
    /\ stats(query.products).averagePrice = FixedStr(0, 0)
    /\ stats(query.products).totalProducts = 0

\* length of a product's ad or mention sequence, an absent one counting 0
SeqLength(id, field) ==
    IF IsNum(Product(id)[field]) THEN Product(id)[field].v ELSE 0

RECURSIVE TotalLength(_, _)
TotalLength(S, field) ==
    IF S = {} THEN 0
    ELSE LET id == CHOOSE x \in S : TRUE
         IN SeqLength(id, field) + TotalLength(S \ {id}, field)

HighScorers(S) ==
    { id \in S : IsNum(Product(id).score) /\ Product(id).score.v >= HIGH_SCORE }

\* the counts and totals of the stats of a collection are those of its
\* products, computed without error
CountsAndTotals(st, ps) ==
    /\ st.k = "ok"
    /\ st.totalProducts = Cardinality(Range(ps))
    /\ st.highScoreProducts = Cardinality(HighScorers(Range(ps)))
    /\ st.totalFacebookAds = TotalLength(Range(ps), "facebook_ads")
    /\ st.totalTikTokMentions = TotalLength(Range(ps), "tiktok_mentions")

\* C21: totalProducts is the number of products, highScoreProducts the
\* number with score >= 80, totalFacebookAds and totalTikTokMentions the
\* sums of the lengths of the ad and mention sequences, an absent sequence
\* counting 0 without error, and all six stats are the same for every
\* reordering of the collection.
C21_StatsCountsOrderFree ==
    /\ CountsAndTotals(stats(query.products), query.products)
    /\ CountsAndTotals(stats0(query.products), query.products)
    /\ \A r \in Reorderings(query.products) :
          /\ stats(r) = stats(query.products)
          /\ stats0(r) = stats0(query.products)

\* C22: the reported totalProducts is the number of products that satisfy
\* the active filter, that is the length of the filtered list the same
\* render shows, not the length of the unfiltered collection.
C22_StatsOverFiltered ==
    /\ (hookFilter(query.products, query.filterOptions).k = "ok"
        /\ stats0(query.products).k = "ok")
          => stats0(query.products).totalProducts =
                Len(hookFilter(query.products, query.filterOptions).items)
    /\ stats(query.products).totalProducts = Len(storeView)

\* computations of a derived list or of statistics
ReadOnlyOps ==
    {"filteredProducts", "filteredAndSortedProducts", "stats", "topProducts"}

\* C23: computing a filtered list, a sorted list, a top-N list or the
\* statistics leaves the stored product collection unchanged, in content
\* and in order.
C23_DerivedReadOnly ==
    [][analytics'.op \in ReadOnlyOps =>
          analytics'.products = analytics.products]_vars

\* a step in which the response to a request in flight was handled
ResponseHandled == Len(fetch'.inflight) < Len(fetch.inflight)

\* C24: a response with success=false supplies no product data: handling
\* it leaves the product list as it was and sets the error state to the
\* response's message, or to the fallback message when it has none.
C24_FailureSuppliesNoData ==
    [][(ResponseHandled /\ fetch'.last \in Failures) =>
          /\ query'.products = query.products
          /\ fetch'.error = IF fetch'.last = "fail_message" THEN MESSAGE
                            ELSE FAILED]_vars

\* the response to the request built from the current filterOptions and
\* sortBy
CurrentResponse ==
    responseData(buildParams(query.filterOptions, query.sortBy))

\* C25: once no request of useProducts is in flight and the responses
\* were successes, the product list is the response to the request built
\* from the current filterOptions and sortBy: a response to an older
\* request that arrives late does not overwrite it.
C25_LatestRequestWins ==
    (/\ fetch.hook = "useProducts"
     /\ fetch.inflight = <<>>
     /\ fetch.last = "ok"
     /\ fetch.error = NoError)
        => query.products = CurrentResponse

\* C26: in useProducts, loading is true while at least one product fetch
\* is in flight.
C26_LoadingWhileInFlight ==
    (fetch.hook = "useProducts" /\ fetch.inflight # <<>>) =>
        fetch.loading = TRUE

\* the three saved lists, each with the ids toggled an odd number of times
SavedLists ==
    { [list |-> saved.hook, odd |-> saved.odd.hook],
      [list |-> saved.page, odd |-> saved.odd.page],
      [list |-> storage.storedValue, odd |-> saved.odd.stored] }

\* a saved list has no duplicates and holds exactly the ids toggled an odd
\* number of times
ToggleParity ==
    \A s \in SavedLists : Distinct(s.list) /\ Range(s.list) = s.odd

\* toggling one id neither adds nor removes another id
OthersKept ==
    \A s \in SavedLists : \A id \in Savable :
        Range(toggle(s.list, id)) \ {id} = Range(s.list) \ {id}

\* C27 as stated: no duplicates, an id is in the list iff it was toggled
\* an odd number of times, toggling one id leaves the others, and toggling
\* the same id twice restores the previous list.
C27_ToggleTwiceRestoresList ==
    /\ ToggleParity
    /\ OthersKept
    /\ \A s \in SavedLists : \A id \in Savable :
          toggle(toggle(s.list, id), id) = s.list

\* C27 (amended): no duplicates, an id is in the list iff it was toggled
\* an odd number of times, toggling one id leaves the others, and toggling
\* the same id twice restores the previous ids of the list, without
\* duplicates; their order may differ.
C27_ToggleTwiceRestoresIds ==
    /\ ToggleParity
    /\ OthersKept
    /\ \A s \in SavedLists : \A id \in Savable :
          /\ Range(toggle(toggle(s.list, id), id)) = Range(s.list)
          /\ Distinct(toggle(toggle(s.list, id), id))

\* C27 witness: after toggles of p2 and p1 the hook's list is [p2, p1],
\* the dashboard's stored list is not empty, and toggling p2 twice gives
\* [p1, p2].
C27_Witness ==
    /\ saved.hook = <<"p2", "p1">>
    /\ saved.odd.hook = {"p1", "p2"}
    /\ storage.storedValue # <<>>
    /\ toggle(toggle(saved.hook, "p2"), "p2") = <<"p1", "p2">>

\* C28: after clearFilters is invoked, by 'Reset All' or by the empty
\* state's 'Clear Filters', filterOptions are the defaults, sortBy is
\* 'score' and the panel's localFilters are the same defaults.
C28_ClearResetsPanel ==
    panel.last \in {"reset", "clear"} =>
        /\ query.filterOptions = defaultFilterOptions
        /\ query.sortBy = "score"
        /\ panel.localFilters = defaultFilterOptions

\* a notification with this id and a duration other than 0 is shown
TimedShown(id) ==
    \E i \in 1 .. Len(notes.notifications) :
        /\ notes.notifications[i].id = id
        /\ notes.notifications[i].duration # Num(0)

\* the notifications other than those with this id, in their order
Others(list, id) == SelectSeq(list, LAMBDA notification : notification.id # id)

\* a call that removes: it names the id it removes
Removal(call) == call.op \in {"removeNotification", "timer"}

\* every pending timer waits for the duration of its notification, or for
\* 5000 ms when the notification has none, and none is set for duration 0
TimersAsGiven ==
    \A t \in notes.timers :
        /\ t.duration # Num(0)
        /\ t.delay = IF t.duration = Absent THEN 5000 ELSE t.duration.v

\* removeNotification(id), by the user or by a timer, removes the
\* notifications with that id and no other, and changes nothing when there
\* is none; a notification leaves the list in no other way than by
\* removeNotification of its id or by clearAll
RemovesOnlyThatId ==
    [][/\ Removal(notes'.last) =>
            notes'.notifications =
                Others(notes.notifications, notes'.last.id)
       /\ notes'.last.op = "addNotification" =>
            SubSeq(notes'.notifications, 1, Len(notes.notifications)) =
                notes.notifications
       /\ notes'.last.op = "clearAll" => notes'.notifications = <<>>]_vars

\* C29: every notification added with a duration other than 0 is
\* eventually removed by its timer, which waits for its duration or for
\* 5000 ms when none is given; a notification added with duration 0 stays
\* until removeNotification or clearAll; removeNotification(id), called by
\* the user or by the timer, removes only the notifications with that id
\* and changes nothing when there is none.
C29_TimedNotificationsExpire ==
    /\ \A id \in NotificationIds : TimedShown(id) ~> ~TimedShown(id)
    /\ []TimersAsGiven
    /\ RemovesOnlyThatId

\* C29 witness: a timer fired for a notification that was already gone,
\* every timer has fired, and a notification with duration 0 is still
\* shown.
C29_Witness ==
    /\ notes.last.op = "timer"
    /\ notes.timers = {}
    /\ notes.added = 2
    /\ Len(notes.notifications) = 1
    /\ notes.notifications[1].duration = Num(0)
    /\ notes.notifications[1].id # notes.last.id

\* C30: setValue with a functional updater applies the updater to the
\* most recently set value, and after a successful setValue the value
\* persisted under the key is the stored value.
C30_UpdaterSeesLatestValue ==
    [][storage'.last.op \in Updaters =>
          /\ storage'.storedValue =
                apply(storage'.last.op, storage'.last.id, storage.storedValue)
          /\ parse(storage'.item) = storage'.storedValue]_vars
====
